---- MODULE Spec2Model ----
(***************************************************************************)
(* Model of the LatLonGrid tiling system (latlongrid/latlongrid.py).       *)
(*                                                                         *)
(* The library is a set of pure operations on an immutable grid object.    *)
(* The state machine holds the grid under test (its core properties), the  *)
(* last call made on it and what that call returned or raised.             *)
(*                                                                         *)
(* Strings are sequences of one-character strings.  Python floats are      *)
(* IEEE-754 binary64 values [s, m, e] = (-1)^s * m * 2^e with a 53-bit     *)
(* mantissa m held as little-endian limbs of LimbBits bits; arithmetic is  *)
(* exact big-natural arithmetic followed by round-to-nearest-even.         *)
(***************************************************************************)
EXTENDS Integers, Sequences, FiniteSets

(***************************************************************************)
(* Big naturals: little-endian sequences of limbs, <<>> is zero.           *)
(***************************************************************************)
LimbBits == 15

\* 2^n, by squaring
RECURSIVE Pow2(_)
Sq(x) == x * x

Pow2(n) ==
    IF n = 0 THEN 1
    ELSE IF n % 2 = 1 THEN 2 * Sq(Pow2(n \div 2))
    ELSE Sq(Pow2(n \div 2))

Base == Pow2(LimbBits)

Min(a, b) == IF a < b THEN a ELSE b

Rest(a) == IF a = <<>> THEN <<>> ELSE Tail(a)

Low(a) == IF a = <<>> THEN 0 ELSE a[1]

RECURSIVE BigNorm(_)
BigNorm(a) ==
    IF a = <<>> THEN a
    ELSE IF a[Len(a)] = 0 THEN BigNorm(SubSeq(a, 1, Len(a) - 1))
    ELSE a

RECURSIVE BigFromInt(_)
BigFromInt(n) == IF n = 0 THEN <<>> ELSE <<n % Base>> \o BigFromInt(n \div Base)

RECURSIVE BigToInt(_)
BigToInt(a) == IF a = <<>> THEN 0 ELSE a[1] + Base * BigToInt(Tail(a))

RECURSIVE BigAddC(_, _, _)
BigAddC(a, b, c) ==
    IF a = <<>> /\ b = <<>> THEN (IF c = 0 THEN <<>> ELSE <<c>>)
    ELSE LET t == Low(a) + Low(b) + c
         IN  <<t % Base>> \o BigAddC(Rest(a), Rest(b), t \div Base)

BigAdd(a, b) == BigNorm(BigAddC(a, b, 0))

RECURSIVE BigSubB(_, _, _)
BigSubB(a, b, br) ==
    IF a = <<>> THEN <<>>
    ELSE LET d == a[1] - Low(b) - br
         IN  <<(d + Base) % Base>> \o BigSubB(Tail(a), Rest(b), IF d < 0 THEN 1 ELSE 0)

\* a - b for a >= b
BigSub(a, b) == BigNorm(BigSubB(a, b, 0))

RECURSIVE BigCmpAt(_, _, _)
BigCmpAt(a, b, i) ==
    IF i = 0 THEN 0
    ELSE IF a[i] > b[i] THEN 1
    ELSE IF a[i] < b[i] THEN -1
    ELSE BigCmpAt(a, b, i - 1)

\* -1, 0, 1 for normalised a, b
BigCmp(a, b) ==
    IF Len(a) > Len(b) THEN 1
    ELSE IF Len(a) < Len(b) THEN -1
    ELSE BigCmpAt(a, b, Len(a))

RECURSIVE BigMulSmallC(_, _, _)
BigMulSmallC(a, k, c) ==
    IF a = <<>> THEN (IF c = 0 THEN <<>> ELSE <<c>>)
    ELSE LET p == a[1] * k + c
         IN  <<p % Base>> \o BigMulSmallC(Tail(a), k, p \div Base)

\* a * k for 0 <= k < Base
BigMulSmall(a, k) == BigNorm(BigMulSmallC(a, k, 0))

RECURSIVE BigMul(_, _)
BigMul(a, b) ==
    IF a = <<>> \/ b = <<>> THEN <<>>
    ELSE BigAdd(BigMulSmall(a, b[1]),
                LET hi == BigMul(a, Tail(b)) IN IF hi = <<>> THEN <<>> ELSE <<0>> \o hi)

\* st is the quotient and the remainder of the limbs of a above limb i:
\* one more limb, low, is divided
BigDivLimb(st, low, d) ==
    [q |-> <<(st.r * Base + low) \div d>> \o st.q, r |-> (st.r * Base + low) % d]

\* long division from the top limb down to limb 1
RECURSIVE BigDivFrom(_, _, _, _)
BigDivFrom(a, d, i, st) ==
    CASE i = 0 -> st
      [] i > 0 /\ st.r = 0 /\ a[i] = 0 ->
             BigDivFrom(a, d, i - 1, [q |-> <<0>> \o st.q, r |-> 0])
      [] OTHER -> BigDivFrom(a, d, i - 1, BigDivLimb(st, a[i], d))

\* quotient and remainder of a by d, 0 < d <= Base
BigDivRem(a, d) == BigDivFrom(a, d, Len(a), [q |-> <<>>, r |-> 0])

BigDivSmall(a, d) == BigNorm(BigDivRem(a, d).q)

RECURSIVE Zeros(_)
Zeros(n) == IF n = 0 THEN <<>> ELSE <<0>> \o Zeros(n - 1)

BigShl(a, n) ==
    IF a = <<>> THEN <<>>
    ELSE Zeros(n \div LimbBits) \o BigMulSmall(a, Pow2(n % LimbBits))

BigShr(a, n) ==
    IF n \div LimbBits >= Len(a) THEN <<>>
    ELSE BigDivSmall(SubSeq(a, n \div LimbBits + 1, Len(a)), Pow2(n % LimbBits))

\* the number of bits of n, four at a time while there are as many
RECURSIVE BitLenInt(_)
BitLenInt(n) ==
    IF n = 0 THEN 0
    ELSE IF n >= 16 THEN 4 + BitLenInt(n \div 16)
    ELSE 1 + BitLenInt(n \div 2)

BigBitLen(a) == IF a = <<>> THEN 0 ELSE LimbBits * (Len(a) - 1) + BitLenInt(a[Len(a)])

BigOdd(a) == a # <<>> /\ a[1] % 2 = 1

\* bit i of a, counted from 0
BigBit(a, i) ==
    IF i \div LimbBits >= Len(a) THEN 0
    ELSE (a[(i \div LimbBits) + 1] \div Pow2(i % LimbBits)) % 2

\* the low n bits of a are all zero
RECURSIVE BigLowZero(_, _)
BigLowZero(a, n) ==
    IF n <= 0 \/ a = <<>> THEN TRUE
    ELSE IF n >= LimbBits THEN a[1] = 0 /\ BigLowZero(Tail(a), n - LimbBits)
    ELSE a[1] % Pow2(n) = 0

RECURSIVE BigMulPow10(_, _)
BigMulPow10(a, k) ==
    IF k = 0 \/ a = <<>> THEN a ELSE BigMulPow10(BigMulSmall(a, 10), k - 1)

\* floor(a / 10^k) and whether anything was cut off; d is the division of
\* a by the next power of ten, at most 10^4 at a time
RECURSIVE BigDivPow10(_, _, _)
BigDivPow10Cut(d, k, st) ==
    IF d.r # 0 THEN BigDivPow10(BigNorm(d.q), k, TRUE)
    ELSE BigDivPow10(BigNorm(d.q), k, st)

BigDivPow10(a, k, st) ==
    IF k = 0 \/ a = <<>> THEN [q |-> a, st |-> st]
    ELSE IF k >= 4 THEN BigDivPow10Cut(BigDivRem(a, 10000), k - 4, st)
    ELSE BigDivPow10Cut(BigDivRem(a, 10), k - 1, st)

(***************************************************************************)
(* binary64 floats                                                         *)
(***************************************************************************)
MantBits == 53

FZero == [s |-> 0, m |-> <<>>, e |-> 0]

\* the float of sign s and magnitude q * 2^e for q of at most MantBits + 1
\* bits (the extra bit is there only when q is a power of two)
FPack(s, q, e) ==
    IF BigBitLen(q) > MantBits THEN [s |-> s, m |-> BigShr(q, 1), e |-> e + 1]
    ELSE [s |-> s, m |-> q, e |-> e]

\* n has sh > 0 bits too many and q is n without them: round to nearest,
\* ties to even
FRoundCut(s, n, e, st, sh, q) ==
    FPack(s,
          IF BigBit(n, sh - 1) = 1 /\ (st \/ ~BigLowZero(n, sh - 1) \/ BigOdd(q))
          THEN BigAdd(q, <<1>>) ELSE q,
          e + sh)

\* n # 0 has L bits
FRoundLen(s, n, e, st, L) ==
    IF L <= MantBits
    THEN [s |-> s, m |-> BigShl(n, MantBits - L), e |-> e - (MantBits - L)]
    ELSE FRoundCut(s, n, e, st, L - MantBits, BigShr(n, L - MantBits))

\* nearest double (ties to even) to (-1)^s * (n + sticky) * 2^e, where the
\* sticky flag st stands for a positive amount below one unit of n
FRound53(s, n, e, st) ==
    IF n = <<>> THEN FZero ELSE FRoundLen(s, n, e, st, BigBitLen(n))

\* float(n) for an integer n
FromInt(n) ==
    FRound53(IF n < 0 THEN 1 ELSE 0, BigFromInt(IF n < 0 THEN 0 - n ELSE n), 0, FALSE)

\* the float nearest to (d.q + sticky d.st) * 2^-sh
DecQuot(d, sh) == FRound53(0, d.q, 0 - sh, d.st)

\* n * 10^k as a quotient scaled by 2^sh
DecAt(n, k, sh) ==
    DecQuot(IF k >= 0 THEN [q |-> BigMulPow10(n, k), st |-> FALSE]
            ELSE BigDivPow10(BigShl(n, sh), 0 - k, FALSE),
            sh)

\* the float n * 10^k for a big natural n, correctly rounded
DecBig(n, k) == DecAt(n, k, IF k >= 0 THEN 0 ELSE BigBitLen(n) + 8 * LimbBits)

\* the float a decimal literal n * 10^k denotes, e.g. Dec(16, -5) is 0.00016
Dec(n, k) == DecBig(BigFromInt(n), k)

FNeg(a) == IF a.m = <<>> THEN a ELSE [a EXCEPT !.s = 1 - a.s]

FAbs(a) == [a EXCEPT !.s = 0]

FMul(a, b) ==
    FRound53((a.s + b.s) % 2, BigMul(a.m, b.m), a.e + b.e, FALSE)

\* -1, 0, 1 as a < b, a = b, a > b
FCmpMag(a, b) ==
    IF a.m = <<>> /\ b.m = <<>> THEN 0
    ELSE IF a.m = <<>> THEN -1
    ELSE IF b.m = <<>> THEN 1
    ELSE IF a.e > b.e THEN 1
    ELSE IF a.e < b.e THEN -1
    ELSE BigCmp(a.m, b.m)

FCmp(a, b) ==
    IF a.s = 0 /\ b.s = 0 THEN FCmpMag(a, b)
    ELSE IF a.s = 1 /\ b.s = 1 THEN FCmpMag(b, a)
    ELSE IF a.m = <<>> /\ b.m = <<>> THEN 0
    ELSE IF a.s = 1 THEN -1 ELSE 1

FLt(a, b) == FCmp(a, b) < 0

FLe(a, b) == FCmp(a, b) <= 0

FEq(a, b) == FCmp(a, b) = 0

\* A, B are the magnitudes of a, b in units of 2^e0 and c compares them
FAddAligned(a, b, A, B, e0, c) ==
    FRound53(IF a.s = b.s \/ c > 0 THEN a.s ELSE b.s,
             IF a.s = b.s THEN BigAdd(A, B)
             ELSE IF c >= 0 THEN BigSub(A, B) ELSE BigSub(B, A),
             e0, FALSE)

FAddShifted(a, b, A, B, e0) == FAddAligned(a, b, A, B, e0, BigCmp(A, B))

FAddAt(a, b, e0) ==
    FAddShifted(a, b, BigShl(a.m, a.e - e0), BigShl(b.m, b.e - e0), e0)

FAdd(a, b) ==
    IF a.m = <<>> THEN b
    ELSE IF b.m = <<>> THEN a
    ELSE FAddAt(a, b, Min(a.e, b.e))

FSub(a, b) == FAdd(a, FNeg(b))

\* the integer of a's sign and of magnitude mag
FSigned(a, mag) == IF a.s = 1 THEN 0 - mag ELSE mag

\* int(a): truncation towards zero
FTrunc(a) ==
    FSigned(a, BigToInt(IF a.e >= 0 THEN BigShl(a.m, a.e) ELSE BigShr(a.m, 0 - a.e)))

\* |a| has sh > 0 fraction bits and q is its integer part: nearest integer,
\* ties to even
FRoundMag(a, sh, q) ==
    BigToInt(q)
    + (IF BigBit(a.m, sh - 1) = 1 /\ (~BigLowZero(a.m, sh - 1) \/ BigOdd(q))
       THEN 1 ELSE 0)

\* round(a) of Python 3: nearest integer, ties to even
FRoundInt(a) ==
    FSigned(a, IF a.e >= 0 THEN BigToInt(BigShl(a.m, a.e))
               ELSE FRoundMag(a, 0 - a.e, BigShr(a.m, 0 - a.e)))

\* limb i of a, counted from 1
Limb(a, i) == IF i <= Len(a) THEN a[i] ELSE 0

\* the largest digit q <= guess with d * q <= a
RECURSIVE BigDigitFit(_, _, _)
BigDigitFit(a, d, guess) ==
    IF BigCmp(BigMulSmall(d, guess), a) <= 0 THEN guess
    ELSE BigDigitFit(a, d, guess - 1)

\* the digit a \div d for a < d * Base, where the top limb of d is at least
\* Base / 2: the guess from the top limbs is at most 2 too large
BigDigit(a, d) ==
    BigDigitFit(a, d,
                Min(Base - 1,
                    (Limb(a, Len(d) + 1) * Base + Limb(a, Len(d))) \div d[Len(d)]))

\* long division, limb by limb: the next n limbs of the quotient rem / d,
\* for rem < d, and whether a remainder is left
RECURSIVE BigDivLimbs(_, _, _)
BigDivAppend(q, low) == [q |-> low.q \o <<q>>, st |-> low.st]

BigDivTake(a, d, n, q) ==
    BigDivAppend(q, BigDivLimbs(BigSub(a, BigMulSmall(d, q)), d, n - 1))

BigDivLimbs(rem, d, n) ==
    IF n = 0 THEN [q |-> <<>>, st |-> rem # <<>>]
    ELSE IF rem = <<>> THEN [q |-> Zeros(n), st |-> FALSE]
    ELSE BigDivTake(<<0>> \o rem, d, n, BigDigit(<<0>> \o rem, d))

\* the number of limbs of the quotient of two mantissas: all the bits of a
\* mantissa and two more
DivLimbs == (MantBits + 2) \div LimbBits + 1

\* d is the quotient of the mantissas, scaled by Base^DivLimbs
FDivQuot(a, b, d) ==
    FRound53((a.s + b.s) % 2, BigNorm(d.q), a.e - b.e - DivLimbs * LimbBits, d.st)

\* A and D are the mantissas, shifted to whole limbs; their quotient is
\* below 2
FDivShifted(a, b, A, D) ==
    FDivQuot(a, b,
             IF BigCmp(A, D) >= 0
             THEN BigDivAppend(1, BigDivLimbs(BigSub(A, D), D, DivLimbs))
             ELSE BigDivLimbs(A, D, DivLimbs))

\* a / b for b # 0
FDiv(a, b) ==
    IF a.m = <<>> THEN FZero
    ELSE FDivShifted(a, b, BigShl(a.m, DivLimbs * LimbBits - MantBits),
                     BigShl(b.m, DivLimbs * LimbBits - MantBits))

(***************************************************************************)
(* Results of calls: a returned value or a raised exception.               *)
(***************************************************************************)
Ok(v) == [exc |-> "none", msg |-> "", val |-> v]

Raise(e, m) == [exc |-> e, msg |-> m, val |-> <<>>]

None == [some |-> FALSE]

Some(v) == [some |-> TRUE, v |-> v]

(***************************************************************************)
(* Strings as sequences of characters.  The characters that occur are the  *)
(* digits, the letters D E G L M N T U X and the signs '_', '-', '+'.      *)
(***************************************************************************)
Digits == <<"0", "1", "2", "3", "4", "5", "6", "7", "8", "9">>

IsDigit(c) == \E i \in 1..10 : Digits[i] = c

DigitVal(c) == (CHOOSE i \in 1..10 : Digits[i] = c) - 1

\* ord(c)
Ord(c) ==
    CASE c = "+" -> 43 [] c = "-" -> 45 [] c = "_" -> 95
      [] c = "D" -> 68 [] c = "E" -> 69 [] c = "G" -> 71 [] c = "L" -> 76
      [] c = "M" -> 77 [] c = "N" -> 78 [] c = "T" -> 84 [] c = "U" -> 85
      [] c = "X" -> 88
      [] OTHER -> 48 + DigitVal(c)

\* -1, 0, 1: lexicographic comparison of two strings, as Python's <, ==, >
RECURSIVE StrCmp(_, _)
StrCmp(a, b) ==
    IF a = <<>> /\ b = <<>> THEN 0
    ELSE IF a = <<>> THEN -1
    ELSE IF b = <<>> THEN 1
    ELSE IF Ord(a[1]) < Ord(b[1]) THEN -1
    ELSE IF Ord(a[1]) > Ord(b[1]) THEN 1
    ELSE StrCmp(Tail(a), Tail(b))

Contains(s, c) == \E i \in 1..Len(s) : s[i] = c

\* s[i:j] of Python for 0 <= i <= j (clipped to the string)
Slice(s, i, j) == SubSeq(s, i + 1, Min(j, Len(s)))

\* s.split(c)[-1]: what follows the last occurrence of c
SplitLast(s, c) ==
    IF ~Contains(s, c) THEN s
    ELSE LET k == CHOOSE i \in 1..Len(s) :
                     s[i] = c /\ \A j \in (i + 1)..Len(s) : s[j] # c
         IN  SubSeq(s, k + 1, Len(s))

RECURSIVE NatToStr(_)
NatToStr(n) ==
    IF n < 10 THEN <<Digits[n + 1]>>
    ELSE NatToStr(n \div 10) \o <<Digits[(n % 10) + 1]>>

\* str(n)
IntToStr(n) == IF n < 0 THEN <<"-">> \o NatToStr(0 - n) ELSE NatToStr(n)

\* s.rjust(w, c)
RECURSIVE RJust(_, _, _)
RJust(s, w, c) == IF Len(s) >= w THEN s ELSE RJust(<<c>> \o s, w, c)

\* "{:03d}".format(n): zero padding goes after the sign
Format03d(n) ==
    IF n < 0 THEN <<"-">> \o RJust(NatToStr(0 - n), 2, "0")
    ELSE RJust(NatToStr(n), 3, "0")

\* a digit string with single underscores between digits, as int() and
\* float() accept it
IsDigitStr(s) ==
    /\ s # <<>>
    /\ IsDigit(s[1]) /\ IsDigit(s[Len(s)])
    /\ \A i \in 1..Len(s) : IsDigit(s[i]) \/ s[i] = "_"
    /\ \A i \in 1..(Len(s) - 1) : ~(s[i] = "_" /\ s[i + 1] = "_")

RECURSIVE DigitsBig(_, _)
DigitsBig(s, acc) ==
    IF s = <<>> THEN acc
    ELSE IF s[1] = "_" THEN DigitsBig(Tail(s), acc)
    ELSE DigitsBig(Tail(s), BigAdd(BigMulSmall(acc, 10), BigFromInt(DigitVal(s[1]))))

HasSign(s) == s # <<>> /\ (s[1] = "-" \/ s[1] = "+")

Unsigned(s) == IF HasSign(s) THEN Tail(s) ELSE s

\* int(s): [ok, neg, mag] with the magnitude a big natural
ParseInt(s) ==
    IF IsDigitStr(Unsigned(s))
    THEN [ok |-> TRUE, neg |-> HasSign(s) /\ s[1] = "-", mag |-> DigitsBig(Unsigned(s), <<>>)]
    ELSE [ok |-> FALSE, neg |-> FALSE, mag |-> <<>>]

\* the int value of a parsed literal that fits the machine integers
IntOf(p) == IF p.neg THEN 0 - BigToInt(p.mag) ELSE BigToInt(p.mag)

\* int(s) == n
ParsedEquals(p, n) ==
    IF n < 0 THEN p.neg /\ p.mag = BigFromInt(0 - n)
    ELSE p.mag = BigFromInt(n) /\ (~p.neg \/ n = 0)

\* v or -v
FWithSign(neg, v) == IF neg THEN FNeg(v) ELSE v

\* float() of a mantissa pm and an exponent pe, both parsed as integers
ParseFloatParts(pm, pe) ==
    IF pm.ok /\ pe.ok
    THEN Ok(FWithSign(pm.neg, DecBig(pm.mag, IntOf(pe))))
    ELSE Raise("ValueError", "could not convert string to float")

\* k is the position of the 'E', or one past the end without an exponent
ParseFloatAt(s, k) ==
    ParseFloatParts(ParseInt(SubSeq(s, 1, k - 1)),
                    IF k <= Len(s) THEN ParseInt(SubSeq(s, k + 1, Len(s)))
                    ELSE [ok |-> TRUE, neg |-> FALSE, mag |-> <<>>])

\* float(s): mantissa digits with an optional exponent part 'E' digits
ParseFloat(s) ==
    ParseFloatAt(s, IF Contains(s, "E")
                    THEN CHOOSE i \in 1..Len(s) :
                            s[i] = "E" /\ \A j \in 1..(i - 1) : s[j] # "E"
                    ELSE Len(s) + 1)

(***************************************************************************)
(* LatLonGrid: samplings, sampling codes and size classes.                 *)
(***************************************************************************)
T1 == <<"T", "1">>

T3 == <<"T", "3">>

T6 == <<"T", "6">>

T18 == <<"T", "1", "8">>

static_tilecodes == {T1, T3, T6, T18}

static_sampling ==
    {Dec(1, -4), Dec(16, -5), Dec(2, -4), Dec(3, -4), Dec(4, -4), Dec(5, -4),
     Dec(6, -4), Dec(8, -4), Dec(1, -3), Dec(16, -4), Dec(2, -3), Dec(3, -3),
     Dec(4, -3), Dec(5, -3), Dec(6, -3), Dec(8, -3), Dec(1, -2)}

\* the float literals of the code: 0.001, 1., 1e6, 1e3, 1e-6, 1e-3, 1e4,
\* 0.0001, 0.0003, 0.0006 and numpy.isclose's defaults rtol, atol
F1em3 == Dec(1, -3)

F1 == FromInt(1)

F1e6 == FromInt(1000000)

F1e3 == FromInt(1000)

F1em6 == Dec(1, -6)

F1e4 == FromInt(10000)

F1em4 == Dec(1, -4)

F3em4 == Dec(3, -4)

F6em4 == Dec(6, -4)

rtol == Dec(1, -5)

atol == Dec(1, -8)

\* the code of the scaled sampling and its order tag
sampling_str_of(sampling_scaled, order_tag) ==
    RJust(IntToStr(sampling_scaled), 3, "0") \o <<order_tag>>

checked_sampling_str(sampling_str) ==
    IF Len(sampling_str) > 4
    THEN Raise("ValueError", "Resolution is badly defined!")
    ELSE Ok(sampling_str)

encode_sampling(sampling) ==
    checked_sampling_str(
        IF FLt(sampling, F1em3)
        THEN sampling_str_of(FTrunc(FMul(sampling, F1e6)), "U")
        ELSE IF FLt(sampling, F1)
        THEN sampling_str_of(FTrunc(FMul(sampling, F1e3)), "M")
        ELSE sampling_str_of(FTrunc(sampling), "D"))

\* float(sampling_str[:-1]) * scale_factor
scaled_sampling(f, scale_factor) ==
    IF f.exc # "none" THEN f ELSE Ok(FMul(f.val, scale_factor))

decode_sampling(sampling_str) ==
    IF Len(sampling_str) # 4 THEN Raise("ValueError", "Resolution is badly defined!")
    ELSE IF ~(Contains(sampling_str, "U") \/ Contains(sampling_str, "M")
              \/ Contains(sampling_str, "D"))
    THEN Raise("ValueError", "Resolution is badly defined!")
    ELSE scaled_sampling(ParseFloat(Slice(sampling_str, 0, Len(sampling_str) - 1)),
                         IF Contains(sampling_str, "U") THEN F1em6
                         ELSE IF Contains(sampling_str, "M") THEN F1em3
                         ELSE F1)

\* size classes with a narrower range for 'T1'
tiletype_of_narrow(sampling_scaled, scale_factor) ==
    IF sampling_scaled >= 1 /\ sampling_scaled < 2
       /\ (1 * scale_factor) % sampling_scaled = 0 THEN Ok(T1)
    ELSE IF sampling_scaled >= 3 /\ sampling_scaled < 6
       /\ (3 * scale_factor) % sampling_scaled = 0 THEN Ok(T3)
    ELSE IF sampling_scaled >= 6 /\ sampling_scaled < 20
       /\ (6 * scale_factor) % sampling_scaled = 0 THEN Ok(T6)
    ELSE IF sampling_scaled >= 20 /\ sampling_scaled < 101
       /\ (18 * scale_factor) % sampling_scaled = 0 THEN Ok(T18)
    ELSE Raise("ValueError", "Error: Given resolution is not supported!")

\* the size class of a sampling scaled to an integer
tiletype_of(sampling_scaled, scale_factor) ==
    IF sampling_scaled >= 1 /\ sampling_scaled < 3
       /\ (1 * scale_factor) % sampling_scaled = 0 THEN Ok(T1)
    ELSE IF sampling_scaled >= 3 /\ sampling_scaled < 6
       /\ (3 * scale_factor) % sampling_scaled = 0 THEN Ok(T3)
    ELSE IF sampling_scaled >= 6 /\ sampling_scaled < 20
       /\ (6 * scale_factor) % sampling_scaled = 0 THEN Ok(T6)
    ELSE IF sampling_scaled >= 20 /\ sampling_scaled < 101
       /\ (18 * scale_factor) % sampling_scaled = 0 THEN Ok(T18)
    ELSE Raise("ValueError", "Error: Given resolution is not supported!")

get_tiletype(sampling) == tiletype_of(FRoundInt(FMul(sampling, F1e4)), 10000)

\* the dictionary {'T18': 18, 'T6': 6, 'T3': 3, 'T1': 1}
TileSizeOf(tilecode) ==
    CASE tilecode = T18 -> 18 [] tilecode = T6 -> 6 [] tilecode = T3 -> 3 [] tilecode = T1 -> 1

\* the tile size of a size class, in both directions
tilesize_of(tt) ==
    IF tt.exc # "none" THEN tt
    ELSE Ok(<<TileSizeOf(tt.val), TileSizeOf(tt.val)>>)

get_tilesize(sampling) == tilesize_of(get_tiletype(sampling))

\* the core properties of the tiling system of a grid of this sampling
core_of(sampling, tt, ts) ==
    IF tt.exc # "none" THEN tt
    ELSE Ok([tag |-> <<"G", "L">>, sampling |-> sampling,
             tiletype |-> tt.val,
             tile_xsize_m |-> ts.val[1], tile_ysize_m |-> ts.val[2]])

\* a constructor without the test of the sampling
LatLonGrid_unchecked(sampling) ==
    core_of(sampling, get_tiletype(sampling), get_tilesize(sampling))

\* LatLonGrid(sampling): the core properties of the grid's subgrid 'GL' and
\* of its tiling system, or the exception the construction raises
LatLonGrid(sampling) ==
    IF ~(\E s \in static_sampling : FEq(sampling, s))
    THEN Raise("ValueError", "Sampling is not supported!")
    ELSE core_of(sampling, get_tiletype(sampling), get_tilesize(sampling))

\* numpy.isclose(a, b) with rtol = 1e-05 and atol = 1e-08
isclose(a, b) ==
    FLe(FAbs(FSub(a, b)), FAdd(atol, FMul(rtol, FAbs(b))))

(***************************************************************************)
(* LatLonTilingSystem: tile names.  core is the tiling system's self.core. *)
(***************************************************************************)
\* decode_fields without the two checks of the alignment of the corner:
\* what C11 says of accepted names does not hold of it
decode_fields_unaligned(core, suffix, size, lon, lat, subgrid_id, sampling) ==
    IF ~size.ok THEN Raise("ValueError", "invalid literal for int()")
    ELSE IF ~ParsedEquals(size, core.tile_xsize_m) THEN Raise("ValueError", "msg1")
    ELSE IF ~lon.ok THEN Raise("ValueError", "invalid literal for int()")
    ELSE IF ~lat.ok THEN Raise("ValueError", "invalid literal for int()")
    ELSE IF <<"T">> \o suffix # core.tiletype THEN Raise("ValueError", "msg1")
    ELSE Ok(<<subgrid_id, sampling, IntOf(size),
              IntOf(lon) - 180, IntOf(lat) - 90, <<"T">> \o suffix>>)

\* the checks of the tile size, of the corner and of the size class, which
\* both forms of a name go through
decode_fields(core, suffix, size, lon, lat, subgrid_id, sampling) ==
    IF ~size.ok THEN Raise("ValueError", "invalid literal for int()")
    ELSE IF ~ParsedEquals(size, core.tile_xsize_m) THEN Raise("ValueError", "msg1")
    ELSE IF ~lon.ok THEN Raise("ValueError", "invalid literal for int()")
    ELSE IF (IntOf(lon) - 180) % core.tile_ysize_m # 0 THEN Raise("ValueError", "msg2")
    ELSE IF ~lat.ok THEN Raise("ValueError", "invalid literal for int()")
    ELSE IF (IntOf(lat) - 90) % core.tile_ysize_m # 0 THEN Raise("ValueError", "msg2")
    ELSE IF <<"T">> \o suffix # core.tiletype THEN Raise("ValueError", "msg1")
    ELSE Ok(<<subgrid_id, sampling, IntOf(size),
              IntOf(lon) - 180, IntOf(lat) - 90, <<"T">> \o suffix>>)

\* suffix is tilename.split('T')[-1]
decode_suffix(core, suffix, lon, lat, subgrid_id, sampling) ==
    decode_fields(core, suffix, ParseInt(suffix), lon, lat, subgrid_id, sampling)

\* decode_long without the comparison of the decoded sampling with the
\* grid's: what C10 says of samplings does not hold of it
decode_long_any_sampling(core, tilename, sampling) ==
    IF sampling.exc # "none" THEN sampling
    ELSE decode_suffix(core, SplitLast(tilename, "T"),
                       ParseInt(Slice(tilename, 8, 11)),
                       ParseInt(Slice(tilename, 12, 15)),
                       Slice(tilename, 0, 2), sampling.val)

\* the long form, after its subgrid id is found to be the grid's
decode_long(core, tilename, sampling) ==
    IF sampling.exc # "none" THEN sampling
    ELSE IF ~isclose(sampling.val, core.sampling) THEN Raise("ValueError", "msg1")
    ELSE decode_suffix(core, SplitLast(tilename, "T"),
                       ParseInt(Slice(tilename, 8, 11)),
                       ParseInt(Slice(tilename, 12, 15)),
                       Slice(tilename, 0, 2), sampling.val)

decode_tilename(core, tilename) ==
    IF Len(tilename) \in {10, 11}
    THEN decode_suffix(core, SplitLast(tilename, "T"),
                       ParseInt(Slice(tilename, 1, 4)),
                       ParseInt(Slice(tilename, 5, 8)),
                       core.tag, core.sampling)
    ELSE IF Len(tilename) \in {17, 18}
    THEN IF Slice(tilename, 0, 2) # core.tag THEN Raise("ValueError", "msg1")
         ELSE decode_long(core, tilename, decode_sampling(Slice(tilename, 2, 6)))
    ELSE Raise("ValueError", "msg1")

\* what check_tilename makes of the decoding
checked(d) == IF d.exc # "none" THEN d ELSE Ok(TRUE)

check_tilename(core, tilename) == checked(decode_tilename(core, tilename))

\* the short form once the name is checked
shortform_of(c, longform) ==
    IF c.exc # "none" THEN c
    ELSE IF Len(longform) = 17 THEN Ok(Slice(longform, 7, Len(longform)))
    ELSE Raise("UnboundLocalError", "shortform")

tilename2short(core, longform) == shortform_of(check_tilename(core, longform), longform)

\* _encode_tilename and the optional shortening
encoded_name(core, tilename, shortform) ==
    IF shortform THEN tilename2short(core, tilename) ELSE Ok(tilename)

encode_with_code(core, ll_lon, ll_lat, code, tilecode, shortform) ==
    IF code.exc # "none" THEN code
    ELSE encoded_name(core,
                      core.tag \o code.val \o <<"_", "E">> \o Format03d(ll_lon + 180)
                          \o <<"N">> \o Format03d(ll_lat + 90) \o tilecode,
                      shortform)

encode_tilename(core, ll_lon, ll_lat, sampling, tilecode, shortform) ==
    encode_with_code(core, ll_lon, ll_lat, encode_sampling(sampling), tilecode, shortform)

\* the list of the names, or the first exception that building it raised
collected(names, count) ==
    IF \E k \in 1..count : names[k].exc # "none"
    THEN names[CHOOSE k \in 1..count :
                  names[k].exc # "none" /\ \A j \in 1..(k - 1) : names[j].exc = "none"]
    ELSE Ok([k \in 1..count |-> names[k].val])

\* the names of the n * n finer tiles, in the order of
\* itertools.product(range(n), range(n))
family_names(target, src_ll_lon, src_ll_lat, n, sampling, shortform) ==
    collected([k \in 1..(n * n) |->
                  encode_tilename(target,
                                  src_ll_lon + ((k - 1) \div n) * target.tile_xsize_m,
                                  src_ll_lat + ((k - 1) % n) * target.tile_xsize_m,
                                  sampling, target.tiletype, shortform)],
              n * n)

\* the sampling the search input resolves to; None when the local variable
\* is never assigned
target_sampling_of(target_sampling, target_tiletype) ==
    IF target_sampling.some THEN Ok(Some(target_sampling.v))
    ELSE IF target_tiletype.some
    THEN IF target_tiletype.v = T1 THEN Ok(Some(F1em4))
         ELSE IF target_tiletype.v = T3 THEN Ok(Some(F3em4))
         ELSE IF target_tiletype.v = T6 THEN Ok(Some(F6em4))
         ELSE Raise("ValueError", "msg3")
    ELSE Ok(None)

\* target_tiletype >= src_tiletype, a comparison of strings
is_larger(target_tiletype, src_tiletype) == StrCmp(target_tiletype, src_tiletype) >= 0

\* the list of the one name
single(name) == IF name.exc # "none" THEN name ELSE Ok(<<name.val>>)

\* the tile of the target grid that holds the lower-left corner of the source
larger_tile(target, src_ll_lon, src_ll_lat, sampling, shortform) ==
    single(encode_tilename(
        target,
        ((src_ll_lon + 180) \div target.tile_xsize_m) * target.tile_xsize_m - 180,
        ((src_ll_lat + 90) \div target.tile_xsize_m) * target.tile_xsize_m - 90,
        sampling, target.tiletype, shortform))

\* src is the decoded source name
find_family(target, sampling, shortform, src) ==
    IF src.exc # "none" THEN src
    ELSE IF is_larger(target.tiletype, src.val[6])
    THEN larger_tile(target, src.val[4], src.val[5], sampling, shortform)
    ELSE family_names(target, src.val[4], src.val[5],
                      src.val[3] \div target.tile_xsize_m, sampling, shortform)

\* target_grid is LatLonGrid(sampling)
find_in_grid(core, tilename, sampling, shortform, target_grid) ==
    IF target_grid.exc # "none" THEN target_grid
    ELSE find_family(target_grid.val, sampling, shortform, decode_tilename(core, tilename))

find_resolved(core, tilename, shortform, resolved) ==
    IF resolved.exc # "none" THEN resolved
    ELSE IF ~resolved.val.some THEN Raise("UnboundLocalError", "sampling")
    ELSE find_in_grid(core, tilename, resolved.val.v, shortform,
                      LatLonGrid(resolved.val.v))

\* find_overlapping_tilenames with short names as soon as target_tiletype is
\* given: what C7 says of the output form does not hold of it
find_overlapping_tilenames_short_by_tiletype(core, tilename, target_sampling, target_tiletype) ==
    find_resolved(core, tilename, target_tiletype.some,
                  target_sampling_of(target_sampling, target_tiletype))

find_overlapping_tilenames(core, tilename, target_sampling, target_tiletype) ==
    find_resolved(core, tilename, ~target_sampling.some,
                  target_sampling_of(target_sampling, target_tiletype))

(***************************************************************************)
(* LatLonTilingSystem: points, tiles and the tiles that cover land.        *)
(* static_data is LatLonGrid._static_data.                                 *)
(***************************************************************************)
\* floor(a) for a float a
FFloor(a) ==
    FTrunc(a) - (IF a.s = 1 /\ a.e < 0 /\ ~BigLowZero(a.m, 0 - a.e) THEN 1 ELSE 0)

\* a // size for a float a and a tile size: Python floors the exact quotient
float_floordiv(a, size) == FFloor(a) \div size

\* the lower-left corner of the tile of a point given in floats; the corner
\* is an integral float and is given by its value
round_lonlat2lowerleft(core, lon, lat) ==
    <<float_floordiv(FAdd(lon, FromInt(180)), core.tile_xsize_m) * core.tile_xsize_m - 180,
      float_floordiv(FAdd(lat, FromInt(90)), core.tile_ysize_m) * core.tile_ysize_m - 90>>

_encode_tilename(core, ll_lon, ll_lat, shortform) ==
    encode_tilename(core, ll_lon, ll_lat, core.sampling, core.tiletype, shortform)

\* ll is round_lonlat2lowerleft(lon, lat)
name_of_corner(core, ll, shortform) == _encode_tilename(core, ll[1], ll[2], shortform)

\* point2tilename that gives the short form whatever is asked for: what
\* C18 says of the names of a search does not hold of it
point2tilename_short(core, lon, lat, shortform) ==
    name_of_corner(core, round_lonlat2lowerleft(core, lon, lat), TRUE)

point2tilename(core, lon, lat, shortform) ==
    name_of_corner(core, round_lonlat2lowerleft(core, lon, lat), shortform)

\* d is the decoded name
lowerleft_of(d) == IF d.exc # "none" THEN d ELSE Ok(<<d.val[4], d.val[5]>>)

tilename2lowerleft(core, tilename) == lowerleft_of(decode_tilename(core, tilename))

\* the land tiles of the size class of the tiling system, in its subgrid GL
list_tiles_covering_land(core, static_data) == static_data.GL.coverland[core.tiletype]

\* c is the checked name and short its short form
covers_land_of(c, short, land_tiles) ==
    IF c.exc # "none" THEN c
    ELSE IF short.exc # "none" THEN short
    ELSE Ok(short.val \in land_tiles)

check_tile_covers_land(core, static_data, tilename) ==
    covers_land_of(check_tilename(core, tilename), tilename2short(core, tilename),
                   list_tiles_covering_land(core, static_data))

\* the tile object: the arguments of its constructor
LatLonTile(core, name, ll_lon, ll_lat, covers_land) ==
    [core |-> core, name |-> name, ll_lon |-> ll_lon, ll_lat |-> ll_lat,
     covers_land |-> covers_land]

tile_with_land(core, name, ll, covers_land) ==
    IF covers_land.exc # "none" THEN covers_land
    ELSE Ok(LatLonTile(core, name, ll[1], ll[2], covers_land.val))

tile_with_name(core, static_data, ll, name) ==
    IF name.exc # "none" THEN name
    ELSE tile_with_land(core, name.val, ll,
                        check_tile_covers_land(core, static_data, name.val))

\* ll is the corner that the point or the name gave
tile_at(core, static_data, ll) ==
    IF ll.exc # "none" THEN ll
    ELSE tile_with_name(core, static_data, ll.val,
                        _encode_tilename(core, ll.val[1], ll.val[2], FALSE))

\* create_tile that takes the point whenever lon and lat are given, with or
\* without a name: what C15 says of the arguments does not hold of it
create_tile_point_first(core, static_data, name, lon, lat) ==
    IF lon.some /\ lat.some
    THEN tile_at(core, static_data, Ok(round_lonlat2lowerleft(core, lon.v, lat.v)))
    ELSE IF name.some /\ ~lon.some /\ ~lat.some
    THEN tile_at(core, static_data, tilename2lowerleft(core, name.v))
    ELSE Raise("AttributeError", "name or lon & lat must be defined!")

create_tile(core, static_data, name, lon, lat) ==
    IF lon.some /\ lat.some /\ ~name.some
    THEN tile_at(core, static_data, Ok(round_lonlat2lowerleft(core, lon.v, lat.v)))
    ELSE IF name.some /\ ~lon.some /\ ~lat.some
    THEN tile_at(core, static_data, tilename2lowerleft(core, name.v))
    ELSE Raise("AttributeError", "name or lon & lat must be defined!")

(***************************************************************************)
(* Tile (pytileproj): pixel indices and coordinates of a tile, as the      *)
(* specification gives them: lon = ll_lon + column * sampling and          *)
(* lat = ll_lat + tilesize - row * sampling; the inverse divides by the    *)
(* sampling and rounds to the nearest pixel.                               *)
(***************************************************************************)
ij2xy(tile, i, j) ==
    <<FAdd(FromInt(tile.ll_lon), FMul(FromInt(i), tile.core.sampling)),
      FSub(FromInt(tile.ll_lat + tile.core.tile_ysize_m),
           FMul(FromInt(j), tile.core.sampling))>>

\* xy2ij that cuts the fraction off instead of rounding: what C19 says of
\* the inverse does not hold of it
xy2ij_truncated(tile, x, y) ==
    <<FTrunc(FDiv(FSub(x, FromInt(tile.ll_lon)), tile.core.sampling)),
      FTrunc(FDiv(FSub(FromInt(tile.ll_lat + tile.core.tile_ysize_m), y),
                  tile.core.sampling))>>

xy2ij(tile, x, y) ==
    <<FRoundInt(FDiv(FSub(x, FromInt(tile.ll_lon)), tile.core.sampling)),
      FRoundInt(FDiv(FSub(FromInt(tile.ll_lat + tile.core.tile_ysize_m), y),
                     tile.core.sampling))>>

(***************************************************************************)
(* LatLonSubgrid: the search for the tiles of a region of interest.  A     *)
(* geometry is an axis-parallel rectangle [x0, y0, x1, y1] of floats, with *)
(* its border.                                                             *)
(***************************************************************************)
FMin(a, b) == IF FLe(a, b) THEN a ELSE b

FMax(a, b) == IF FLe(a, b) THEN b ELSE a

\* geom.Intersects(other): the two have a point in common
Intersects(g, h) ==
    /\ FLe(g.x0, h.x1) /\ FLe(h.x0, g.x1)
    /\ FLe(g.y0, h.y1) /\ FLe(h.y0, g.y1)

\* geom.Intersection(other) of two geometries that intersect
Intersection(g, h) ==
    [x0 |-> FMax(g.x0, h.x0), y0 |-> FMax(g.y0, h.y0),
     x1 |-> FMin(g.x1, h.x1), y1 |-> FMin(g.y1, h.y1)]

\* geometry.extent2polygon((xmin, ymin, xmax, ymax)) of integers
extent2polygon(xmin, ymin, xmax, ymax) ==
    [x0 |-> FromInt(xmin), y0 |-> FromInt(ymin), x1 |-> FromInt(xmax), y1 |-> FromInt(ymax)]

\* the extent of the subgrid GL
polygon_geog(static_data) == static_data.GL.zone_extent

\* a candidate appends its tile name to overlapped_tiles, or nothing
has_tile(kept) == kept # <<>>

tiles_of(kept) == [k \in 1..Len(kept) |-> kept[k][1]]

\* found is the list of what each candidate appended, or an exception
appended(found) ==
    IF found.exc # "none" THEN found ELSE Ok(tiles_of(SelectSeq(found.val, has_tile)))

\* covers is what check_tile_covers_land(ftile) gave
land_filtered(ftile, covers) ==
    IF covers.exc # "none" THEN covers
    ELSE IF covers.val THEN Ok(<<ftile>>) ELSE Ok(<<>>)

\* ftile is the name of a tile that intersects the geometry
kept_tile(core, static_data, coverland, ftile) ==
    IF ftile.exc # "none" THEN ftile
    ELSE IF ~coverland THEN Ok(<<ftile.val>>)
    ELSE land_filtered(ftile.val, check_tile_covers_land(core, static_data, ftile.val))

\* one step of the loop over the candidates
candidate_tile(core, static_data, intersect, coverland, lon, lat) ==
    IF Intersects(extent2polygon(lon, lat, lon + core.tile_xsize_m,
                                 lat + core.tile_xsize_m), intersect)
    THEN kept_tile(core, static_data, coverland,
                   point2tilename(core, FromInt(lon), FromInt(lat), FALSE))
    ELSE Ok(<<>>)

\* the loop over itertools.product(lonr, latr), where lonr and latr are the
\* nlon and nlat multiples of the tile size from lon_min and from lat_min
search_lattice(core, static_data, intersect, coverland, lon_min, nlon, lat_min, nlat) ==
    appended(collected(
        [k \in 1..(nlon * nlat) |->
            candidate_tile(core, static_data, intersect, coverland,
                           lon_min + ((k - 1) \div nlat) * core.tile_xsize_m,
                           lat_min + ((k - 1) % nlat) * core.tile_ysize_m)],
        nlon * nlat))

\* numpy.arange(lon_min, lon_max + size, size) has this many elements
arange_len(lon_min, lon_max, size) == (lon_max + size - lon_min) \div size

search_bounds(core, static_data, intersect, coverland, lon_min, lon_max, lat_min, lat_max) ==
    search_lattice(core, static_data, intersect, coverland,
                   lon_min, arange_len(lon_min, lon_max, core.tile_xsize_m),
                   lat_min, arange_len(lat_min, lat_max, core.tile_ysize_m))

\* the envelope of the intersection, the bounding tiles and the search
search_intersection(core, static_data, intersect, coverland) ==
    search_bounds(core, static_data, intersect, coverland,
                  (FTrunc(intersect.x0) \div core.tile_xsize_m) * core.tile_xsize_m,
                  (FTrunc(intersect.x1) \div core.tile_xsize_m + 1) * core.tile_xsize_m,
                  (FTrunc(intersect.y0) \div core.tile_ysize_m) * core.tile_ysize_m,
                  (FTrunc(intersect.y1) \div core.tile_ysize_m + 1) * core.tile_ysize_m)

search_tiles_in_geometry(core, static_data, geom, coverland) ==
    IF Intersects(geom, polygon_geog(static_data))
    THEN search_intersection(core, static_data,
                             Intersection(geom, polygon_geog(static_data)), coverland)
    ELSE Ok(<<>>)

(***************************************************************************)
(* TiledProjectionSystem (pytileproj): the search of the grid, for a region *)
(* given by its extent (xmin, ymin, xmax, ymax), is the search of the       *)
(* subgrid 'GL' for the rectangle of the extent.                            *)
(***************************************************************************)
search_tiles_in_roi(core, static_data, extent, coverland) ==
    search_tiles_in_geometry(core, static_data,
                             [x0 |-> extent[1], y0 |-> extent[2],
                              x1 |-> extent[3], y1 |-> extent[4]],
                             coverland)

(***************************************************************************)
(* The state machine: the static data of the class, a grid (the core of    *)
(* its tiling system), the last call on it and the call's result.          *)
(***************************************************************************)
\* first_search is the first search_tiles_in_roi of the program: the grid,
\* the call, its result and whether the call has been repeated on the grid,
\* or None before it
VARIABLES static_data, core, call, ret, first_search

vars == <<static_data, core, call, ret, first_search>>

\* how many tile rows and columns next to each border of the globe (and
\* next to its centre) the calls are tried on
MaxIdx == 1

Idx(n) == {i \in 0..(n - 1) : i <= MaxIdx \/ i >= n - 1 - MaxIdx \/ i = n \div 2}

\* lower-left corners of tiles of the grid: inside the globe and aligned
LowerLefts(c) ==
    {<<i * c.tile_xsize_m - 180, j * c.tile_ysize_m - 90>> :
        i \in Idx(360 \div c.tile_xsize_m), j \in Idx(180 \div c.tile_ysize_m)}

\* the short and the long form of a tile name
\* corners one tile east, north, west and south of the globe
OutsideLowerLefts(c) ==
    {<<180, -90>>, <<-180, 90>>, <<180, 90>>,
     <<-180 - c.tile_xsize_m, -90>>, <<-180, -90 - c.tile_ysize_m>>}

ShortName(lonfield, latfield, size) ==
    <<"E">> \o Format03d(lonfield) \o <<"N">> \o Format03d(latfield)
            \o <<"T">> \o NatToStr(size)

LongName(tag, code, lonfield, latfield, size) ==
    tag \o code \o <<"_">> \o ShortName(lonfield, latfield, size)

\* samplings that are not supported: 0.00024, 0.0007, 0.000249, 1.0, 1000.0
UnsupportedSampling == {Dec(24, -5), Dec(7, -4), Dec(249, -6), F1, Dec(1, 3)}

SamplingInputs == static_sampling \cup UnsupportedSampling

CodeInputs ==
    {encode_sampling(s).val : s \in static_sampling}
    \cup {<<"1", "0", "0", "X">>, <<"1", "0", "U">>, <<"U", "1", "0", "0">>,
          <<"1", "E", "2", "U">>, <<"0", "1", "0", "0", "U">>, <<"0", "1", "5", "D">>}

\* a target sampling of each size class (0.0016 is the second of class T6)
\* and one that is not supported
TargetSampling == {F1em4, F3em4, F6em4, Dec(16, -4), Dec(1, -2), Dec(7, -4)}

\* the names of the tests
TestNames ==
    {<<"G", "L", "0", "1", "0", "M", "_", "E", "0", "7", "2", "N", "0", "3", "6", "T", "1", "8">>,
     <<"G", "L", "1", "0", "0", "U", "_", "E", "1", "9", "4", "N", "1", "3", "5", "T", "1">>,
     <<"E", "0", "1", "8", "N", "0", "1", "8", "T", "1", "8">>,
     <<"G", "L", "6", "0", "0", "U", "_", "E", "0", "1", "2", "N", "0", "4", "2", "T", "6">>,
     <<"E", "0", "1", "2", "N", "0", "4", "2", "T", "6">>,
     <<"E", "0", "1", "5", "N", "0", "4", "2", "T", "3">>,
     <<"E", "0", "1", "5", "N", "0", "4", "5", "T", "3">>}

OwnCode(c) == encode_sampling(c.sampling).val

OwnNames(c) ==
    UNION {{LongName(c.tag, OwnCode(c), ll[1] + 180, ll[2] + 90, c.tile_xsize_m),
            ShortName(ll[1] + 180, ll[2] + 90, c.tile_xsize_m)} : ll \in LowerLefts(c)}

\* well-formed names of other subgrids, samplings and size classes
ForeignNames ==
    {LongName(tag, encode_sampling(s).val, f[1], f[2], size) :
        tag \in {<<"G", "L">>, <<"X", "X">>},
        s \in TargetSampling \ {Dec(7, -4)},
        f \in {<<18, 18>>, <<198, 126>>},
        size \in {1, 3, 6, 18}}
    \cup {ShortName(f[1], f[2], size) :
        f \in {<<18, 18>>, <<198, 126>>}, size \in {1, 3, 6, 18}}

MutChars == {"X", "_", "7"}

\* names with one character replaced, one character dropped or one appended
Mutations(name) ==
    {[name EXCEPT ![i] = ch] : i \in 1..Len(name), ch \in MutChars}
    \cup {SubSeq(name, 1, Len(name) - 1), SubSeq(name, 2, Len(name)),
          name \o <<"0">>, name \o <<"X">>}

\* names of the grid's format whose fields are past the east and the north
\* border of the globe
OutsideNames(c) ==
    {ShortName(999, 999, c.tile_xsize_m),
     ShortName(360, 90, c.tile_xsize_m),
     LongName(c.tag, OwnCode(c), 180, 180, c.tile_xsize_m)}

NameInputs(c) ==
    OwnNames(c) \cup ForeignNames \cup TestNames \cup OutsideNames(c)
    \cup Mutations(LongName(c.tag, OwnCode(c), 180, 90, c.tile_xsize_m))
    \cup Mutations(ShortName(180, 90, c.tile_xsize_m))

\* (sampling, tilecode) arguments of encode_tilename: the grid's own and
\* those of the target samplings
NameSamplings(c) ==
    {<<c.sampling, c.tiletype>>}
    \cup {<<s, get_tiletype(s).val>> : s \in TargetSampling \ {Dec(7, -4)}}

\* the tiles in the south-west and the north-east corner of the globe, the
\* names of the tests and a name that is no tile name
FamilySources(c) ==
    {LongName(c.tag, OwnCode(c), 0, 0, c.tile_xsize_m),
     ShortName(360 - c.tile_xsize_m, 180 - c.tile_ysize_m, c.tile_xsize_m),
     <<"E", "0", "1", "2">>}
    \cup {n \in TestNames : Len(n) \in {10, 17}}

\* the land tiles of a size class in the data file: the tiles next to the
\* borders and next to the centre of the globe whose column and row add up
\* to a number of parity p
LandIdx(n) == Idx(n) \cup {n \div 2 - 1, n \div 2 + 1}

LandTiles(size, p) ==
    {ShortName(ij[1] * size, ij[2] * size, size) :
        ij \in {x \in LandIdx(360 \div size) \X LandIdx(180 \div size) :
                   (x[1] + x[2]) % 2 = p}}

StaticData ==
    {[GL |-> [zone_extent |-> extent2polygon(-180, -90, 180, 90),
              coverland |-> [tt \in static_tilecodes |-> LandTiles(TileSizeOf(tt), p)]]] :
        p \in {0, 1}}

\* names for tilename2short, check_tile_covers_land and create_tile: the
\* grid's own in both forms, the names of the tests and a name that is no
\* tile name
TileNames(c) == OwnNames(c) \cup TestNames \cup {<<"E", "0", "1", "2">>}

\* points: that of the tests (-71.3456, -1.5432), the corners of the globe,
\* points on and next to the borders of tiles, and a point less than the
\* rounding error of a float below a border
PointInputs ==
    {<<FNeg(Dec(713456, -4)), FNeg(Dec(15432, -4))>>,
     <<FZero, FZero>>,
     <<FromInt(-180), FromInt(-90)>>,
     <<Dec(1795, -1), Dec(895, -1)>>,
     <<FNeg(Dec(5, -1)), FNeg(Dec(5, -1))>>,
     <<FromInt(17), Dec(1799, -2)>>,
     <<FromInt(-18), FromInt(36)>>,
     <<FNeg(Dec(1, -17)), Dec(5, 0)>>,
     <<Dec(5, 0), FNeg(Dec(1, -17))>>}

\* points on the east and the north border of the globe
BorderPoints ==
    {<<FromInt(180), FZero>>, <<FZero, FromInt(90)>>, <<FromInt(180), FromInt(90)>>}

\* regions of interest [x0, y0, x1, y1], in tenths of a degree: around the
\* centre of the globe, with a negative and fractional minimum corner,
\* that of the tests (0, 30, 10, 40), next to the north-east corner of the
\* globe, partly outside the globe and outside it
RoiTenths ==
    {<<-5, -5, 5, 5>>, <<0, 300, 100, 400>>, <<-65, -65, -55, -55>>,
     <<5, 5, 15, 15>>, <<-195, -195, -175, -175>>, <<1755, 855, 1795, 895>>,
     <<-75, -15, -5, 15>>, <<1775, -5, 1850, 5>>, <<2000, 0, 2100, 100>>}

Tenths(n) == IF n < 0 THEN FNeg(Dec(0 - n, -1)) ELSE Dec(n, -1)

GeomInputs ==
    {[x0 |-> Tenths(r[1]), y0 |-> Tenths(r[2]), x1 |-> Tenths(r[3]), y1 |-> Tenths(r[4])] :
        r \in RoiTenths}

\* the extents of the repeated searches: around the centre of the globe and
\* next to the north-east corner of the globe
RoiExtents ==
    {<<Tenths(r[1]), Tenths(r[2]), Tenths(r[3]), Tenths(r[4])>> :
        r \in {<<-5, -5, 5, 5>>, <<1755, 855, 1795, 895>>}}

\* the tiles of the points, where create_tile makes them, and two tiles
\* made by the constructor
TileInputs(c, data) ==
    {r.val : r \in {t \in {create_tile(c, data, None, Some(pt[1]), Some(pt[2])) :
                              pt \in PointInputs} : t.exc = "none"}}
    \cup {LatLonTile(c, LongName(c.tag, OwnCode(c), ll[1] + 180, ll[2] + 90, c.tile_xsize_m),
                     ll[1], ll[2], FALSE) : ll \in {<<0, 0>>, <<-180, -90>>}}

\* the number of pixels in a row and in a column of a tile
PixelCount(c) == FRoundInt(FDiv(FromInt(c.tile_xsize_m), c.sampling))

\* pixels (column, row) of a tile: those of the tests, the corners, and
\* every PixelStep-th pixel of the diagonal
PixelStep == 97

MaxPixels == 12

PixelInputs(c) ==
    {<<333, 444>>, <<0, 0>>, <<PixelCount(c) - 1, 0>>, <<0, PixelCount(c) - 1>>,
     <<PixelCount(c) - 1, PixelCount(c) - 1>>}
    \cup {<<k * PixelStep, PixelCount(c) - 1 - k * PixelStep>> : k \in 1..MaxPixels}

\* coordinates for xy2ij: those of the tests (-71.9667, -1.0444) and those
\* of the pixels of the tile
CoordInputs(tile) ==
    {<<FNeg(Dec(719667, -4)), FNeg(Dec(10444, -4))>>}
    \cup {ij2xy(tile, px[1], px[2]) : px \in PixelInputs(tile.core)}

\* name, lon and lat of create_tile, given or not
CreateInputs(c) ==
    {<<None, Some(pt[1]), Some(pt[2])>> : pt \in PointInputs}
    \cup {<<Some(n), None, None>> : n \in TileNames(c)}
    \cup {<<n, lon, lat>> :
            n \in {None, Some(ShortName(180, 90, c.tile_xsize_m))},
            lon \in {None, Some(FromInt(5))},
            lat \in {None, Some(FromInt(5))}}

\* samplings of up to five decimal places, in units of 0.00001: the small
\* ones and those of the supported samplings
MaxUnits == 40

SamplingUnits ==
    (1..MaxUnits) \cup {50, 60, 70, 80, 100, 160, 200, 300, 400, 500, 600, 800, 1000}

FineSamplings == {Dec(n, -5) : n \in SamplingUnits}

\* target_sampling and target_tiletype; when both are given the tile type
\* is 'T3' or 'T18'
TargetInputs ==
    {<<None, None>>}
    \cup {<<None, Some(t)>> : t \in static_tilecodes \cup {<<"T", "2">>}}
    \cup {<<Some(s), None>> : s \in TargetSampling}
    \cup {<<Some(s), Some(t)>> : s \in TargetSampling, t \in {T3, T18}}

\* the data file is loaded when the module is imported; then a grid is made
Init ==
    /\ static_data \in StaticData
    /\ \E s \in static_sampling :
           /\ call = [op |-> "LatLonGrid", sampling |-> s]
           /\ ret = LatLonGrid(s)
           /\ core = ret.val
    /\ first_search = None

\* another grid is made; the program goes on with it when it was made
NewLatLonGrid ==
    /\ call.op = "none"
    /\ \E s \in SamplingInputs :
           /\ call' = [op |-> "LatLonGrid", sampling |-> s]
           /\ ret' = LatLonGrid(s)
           /\ core' = IF ret'.exc = "none" THEN ret'.val ELSE core
           /\ UNCHANGED <<static_data, first_search>>

GetTiletype ==
    /\ call.op = "none"
    /\ \E s \in FineSamplings \cup UnsupportedSampling :
           /\ call' = [op |-> "get_tiletype", sampling |-> s]
           /\ ret' = get_tiletype(s)
           /\ UNCHANGED <<static_data, core, first_search>>

GetTilesize ==
    /\ call.op = "none"
    /\ \E s \in SamplingInputs :
           /\ call' = [op |-> "get_tilesize", sampling |-> s]
           /\ ret' = get_tilesize(s)
           /\ UNCHANGED <<static_data, core, first_search>>

EncodeSampling ==
    /\ call.op = "none"
    /\ \E s \in SamplingInputs :
           /\ call' = [op |-> "encode_sampling", sampling |-> s]
           /\ ret' = encode_sampling(s)
           /\ UNCHANGED <<static_data, core, first_search>>

DecodeSampling ==
    /\ call.op = "none"
    /\ \E c \in CodeInputs :
           /\ call' = [op |-> "decode_sampling", sampling_str |-> c]
           /\ ret' = decode_sampling(c)
           /\ UNCHANGED <<static_data, core, first_search>>

EncodeTilename ==
    /\ call.op = "none"
    /\ \E ll \in LowerLefts(core) \cup OutsideLowerLefts(core),
          st \in NameSamplings(core), sf \in BOOLEAN :
           /\ call' = [op |-> "encode_tilename", ll_lon |-> ll[1], ll_lat |-> ll[2],
                       sampling |-> st[1], tilecode |-> st[2], shortform |-> sf]
           /\ ret' = encode_tilename(core, ll[1], ll[2], st[1], st[2], sf)
           /\ UNCHANGED <<static_data, core, first_search>>

DecodeTilename ==
    /\ call.op = "none"
    /\ \E n \in NameInputs(core) :
           /\ call' = [op |-> "decode_tilename", tilename |-> n]
           /\ ret' = decode_tilename(core, n)
           /\ UNCHANGED <<static_data, core, first_search>>

FindOverlappingTilenames ==
    /\ call.op = "none"
    /\ \E n \in FamilySources(core), t \in TargetInputs :
           /\ call' = [op |-> "find_overlapping_tilenames", tilename |-> n,
                       target_sampling |-> t[1], target_tiletype |-> t[2]]
           /\ ret' = find_overlapping_tilenames(core, n, t[1], t[2])
           /\ UNCHANGED <<static_data, core, first_search>>

Tilename2Short ==
    /\ call.op = "none"
    /\ \E n \in TileNames(core) :
           /\ call' = [op |-> "tilename2short", longform |-> n]
           /\ ret' = tilename2short(core, n)
           /\ UNCHANGED <<static_data, core, first_search>>

\* a check that takes the tile out of the set of the land tiles
CheckTileCoversLand_popping ==
    /\ call.op = "none"
    /\ \E n \in TileNames(core) :
           /\ call' = [op |-> "check_tile_covers_land", tilename |-> n]
           /\ ret' = check_tile_covers_land(core, static_data, n)
           /\ static_data' =
                  [static_data EXCEPT !.GL.coverland =
                      [t \in DOMAIN @ |-> IF t = core.tiletype THEN @[t] \ {n} ELSE @[t]]]
           /\ UNCHANGED <<core, first_search>>

CheckTileCoversLand ==
    /\ call.op = "none"
    /\ \E n \in TileNames(core) :
           /\ call' = [op |-> "check_tile_covers_land", tilename |-> n]
           /\ ret' = check_tile_covers_land(core, static_data, n)
           /\ UNCHANGED <<static_data, core, first_search>>

RoundLonLat2LowerLeft ==
    /\ call.op = "none"
    /\ \E pt \in PointInputs :
           /\ call' = [op |-> "round_lonlat2lowerleft", lon |-> pt[1], lat |-> pt[2]]
           /\ ret' = Ok(round_lonlat2lowerleft(core, pt[1], pt[2]))
           /\ UNCHANGED <<static_data, core, first_search>>

Point2Tilename ==
    /\ call.op = "none"
    /\ \E pt \in PointInputs \cup BorderPoints, sf \in BOOLEAN :
           /\ call' = [op |-> "point2tilename", lon |-> pt[1], lat |-> pt[2],
                       shortform |-> sf]
           /\ ret' = point2tilename(core, pt[1], pt[2], sf)
           /\ UNCHANGED <<static_data, core, first_search>>

CreateTile ==
    /\ call.op = "none"
    /\ \E a \in CreateInputs(core) :
           /\ call' = [op |-> "create_tile", name |-> a[1], lon |-> a[2], lat |-> a[3]]
           /\ ret' = create_tile(core, static_data, a[1], a[2], a[3])
           /\ UNCHANGED <<static_data, core, first_search>>

SearchTilesInGeometry ==
    /\ call.op = "none"
    /\ \E g \in GeomInputs, cl \in BOOLEAN :
           /\ call' = [op |-> "search_tiles_in_geometry", geom |-> g, coverland |-> cl]
           /\ ret' = search_tiles_in_geometry(core, static_data, g, cl)
           /\ UNCHANGED <<static_data, core, first_search>>

\* what is known of the first search after the search c that returned r
searched_first(first, grid, c, r) ==
    IF ~first.some THEN Some([grid |-> grid, call |-> c, ret |-> r, repeated |-> FALSE])
    ELSE IF first.v.grid = grid /\ first.v.call = c
    THEN Some([first.v EXCEPT !.repeated = TRUE])
    ELSE first

SearchTilesInRoi ==
    /\ call.op = "none"
    /\ \E e \in RoiExtents, cl \in BOOLEAN :
           /\ call' = [op |-> "search_tiles_in_roi", extent |-> e, coverland |-> cl]
           /\ ret' = search_tiles_in_roi(core, static_data, e, cl)
           /\ first_search' = searched_first(first_search, core, call', ret')
           /\ UNCHANGED <<static_data, core>>

Ij2xy ==
    /\ call.op = "none"
    /\ \E tile \in TileInputs(core, static_data), px \in PixelInputs(core) :
           /\ call' = [op |-> "ij2xy", tile |-> tile, i |-> px[1], j |-> px[2]]
           /\ ret' = Ok(ij2xy(tile, px[1], px[2]))
           /\ UNCHANGED <<static_data, core, first_search>>

Xy2ij ==
    /\ call.op = "none"
    /\ \E tile \in TileInputs(core, static_data) :
           \E xy \in CoordInputs(tile) :
               /\ call' = [op |-> "xy2ij", tile |-> tile, x |-> xy[1], y |-> xy[2]]
               /\ ret' = Ok(xy2ij(tile, xy[1], xy[2]))
               /\ UNCHANGED <<static_data, core, first_search>>

\* the call returns: the caller has its result and the grid is as before
Return ==
    /\ call.op # "none"
    /\ call' = [op |-> "none"]
    /\ ret' = Ok(<<>>)
    /\ UNCHANGED <<static_data, core, first_search>>

Next ==
    \/ Return
    \/ NewLatLonGrid
    \/ GetTiletype
    \/ GetTilesize
    \/ EncodeSampling
    \/ DecodeSampling
    \/ EncodeTilename
    \/ DecodeTilename
    \/ FindOverlappingTilenames
    \/ Tilename2Short
    \/ CheckTileCoversLand
    \/ RoundLonLat2LowerLeft
    \/ CreateTile
    \/ Point2Tilename
    \/ SearchTilesInGeometry
    \/ SearchTilesInRoi
    \/ Ij2xy
    \/ Xy2ij

Spec == Init /\ [][Next]_vars

\* the construction of grids and the size classes
NextGrid == Return \/ NewLatLonGrid \/ GetTiletype \/ GetTilesize

SpecGrid == Init /\ [][NextGrid]_vars

\* the sampling codec alone
NextCodec == Return \/ EncodeSampling \/ DecodeSampling

SpecCodec == Init /\ [][NextCodec]_vars

\* encoding and decoding of tile names
NextNames == Return \/ EncodeTilename \/ DecodeTilename

SpecNames == Init /\ [][NextNames]_vars

\* the search for family tiles
NextFamily == Return \/ FindOverlappingTilenames

SpecFamily == Init /\ [][NextFamily]_vars

\* points, tiles and the land tiles
NextTiles ==
    Return \/ Tilename2Short \/ CheckTileCoversLand \/ RoundLonLat2LowerLeft \/ CreateTile

SpecTiles == Init /\ [][NextTiles]_vars

\* the search for the tiles of a region of interest
NextSearch == Return \/ SearchTilesInGeometry

SpecSearch == Init /\ [][NextSearch]_vars

\* the names of points
NextPoints == Return \/ Point2Tilename

SpecPoints == Init /\ [][NextPoints]_vars

\* searches of the grid and other calls between them
NextRoi == Return \/ SearchTilesInRoi \/ CheckTileCoversLand

SpecRoi == Init /\ [][NextRoi]_vars

\* the pixels of a tile
NextPixels == Return \/ Ij2xy \/ Xy2ij

SpecPixels == Init /\ [][NextPixels]_vars

(***************************************************************************)
(* The formats of tile names, as the documentation gives them.             *)
(***************************************************************************)
IsDigits(s) == s # <<>> /\ \A i \in 1..Len(s) : IsDigit(s[i])

\* 'E' ddd 'N' ddd 'T' size
ShortFormat(n) ==
    /\ Len(n) \in {10, 11}
    /\ n[1] = "E" /\ IsDigits(SubSeq(n, 2, 4))
    /\ n[5] = "N" /\ IsDigits(SubSeq(n, 6, 8))
    /\ n[9] = "T" /\ IsDigits(SubSeq(n, 10, Len(n)))

\* tag(2) samplingcode(4) '_' and the short format
LongFormat(n) ==
    /\ Len(n) \in {17, 18}
    /\ n[7] = "_"
    /\ ShortFormat(SubSeq(n, 8, Len(n)))

\* three digits and an order tag
SamplingCode(c) == Len(c) = 4 /\ IsDigits(SubSeq(c, 1, 3)) /\ c[4] \in {"U", "M", "D"}

\* the short part of a name of either format
ShortPart(n) == IF Len(n) >= 17 THEN SubSeq(n, 8, Len(n)) ELSE n

\* the size class, the tile size and the lower-left corner a name states
ClassOfName(n) == <<"T">> \o SubSeq(ShortPart(n), 10, Len(ShortPart(n)))

SizeOfName(n) == IntOf(ParseInt(SubSeq(ShortPart(n), 10, Len(ShortPart(n)))))

CornerOfName(n) ==
    <<IntOf(ParseInt(SubSeq(ShortPart(n), 2, 4))) - 180,
      IntOf(ParseInt(SubSeq(ShortPart(n), 6, 8))) - 90>>

\* the one-degree cells of the tile of this corner and size
Cells(ll, size) ==
    {<<x, y>> : x \in ll[1]..(ll[1] + size - 1), y \in ll[2]..(ll[2] + size - 1)}

CellsOfName(n) == Cells(CornerOfName(n), SizeOfName(n))

\* the size class a search is to find tiles of
TargetClass(c) ==
    IF c.target_sampling.some THEN get_tiletype(c.target_sampling.v).val
    ELSE c.target_tiletype.v

\* a search that returned its list of names
Found == call.op = "find_overlapping_tilenames" /\ ret.exc = "none"

(***************************************************************************)
(* C1 .. C10                                                               *)
(***************************************************************************)
\* C1: for each of the 17 supported samplings s,
\* decode_sampling(encode_sampling(s)) equals s exactly.
C1_CodecRoundTrip ==
    (call.op = "encode_sampling" /\ call.sampling \in static_sampling)
        => (ret.exc = "none" /\ decode_sampling(ret.val) = Ok(call.sampling))

\* C2: on a grid of any supported sampling, decoding the name that
\* encode_tilename builds from the grid's sampling and size class and an
\* aligned lower-left corner inside the globe succeeds and gives the grid's
\* tag, sampling (up to the tolerance of the float comparison), tile size,
\* the corner and the size class.
C2_TilenameRoundTrip ==
    (/\ call.op = "encode_tilename"
     /\ ~call.shortform
     /\ call.sampling = core.sampling
     /\ call.tilecode = core.tiletype)
        => /\ ret.exc = "none"
           /\ LET d == decode_tilename(core, ret.val)
              IN  /\ d.exc = "none"
                  /\ d.val[1] = core.tag
                  /\ isclose(d.val[2], core.sampling)
                  /\ d.val[3] = core.tile_xsize_m
                  /\ d.val[4] = call.ll_lon
                  /\ d.val[5] = call.ll_lat
                  /\ d.val[6] = core.tiletype

\* C3: a search whose target class is, by tile size in degrees, coarser
\* than or equal to the class of the source tile returns exactly one name.
C3_CoarserSingle ==
    (Found /\ TileSizeOf(TargetClass(call)) >= core.tile_xsize_m)
        => Len(ret.val) = 1

\* C4: a search whose target class is finer than the class of the source
\* tile returns exactly (source tile size / target tile size)^2 names.
C4_FinerCount ==
    (Found /\ TileSizeOf(TargetClass(call)) < core.tile_xsize_m)
        => Len(ret.val) = (core.tile_xsize_m \div TileSizeOf(TargetClass(call)))
                          * (core.tile_xsize_m \div TileSizeOf(TargetClass(call)))

\* C5: the tiles a search returns congruently cover the source tile: those
\* of a finer class are pairwise distinct, lie inside the source tile and
\* cover its whole extent; for a coarser or equal class the returned tile
\* contains the whole source tile.
C5_CongruentCover ==
    Found =>
        LET src == CellsOfName(call.tilename)
            got == {CellsOfName(ret.val[k]) : k \in 1..Len(ret.val)}
        IN  IF TileSizeOf(TargetClass(call)) < core.tile_xsize_m
            THEN /\ Cardinality({ret.val[k] : k \in 1..Len(ret.val)}) = Len(ret.val)
                 /\ \A t \in got : t \subseteq src
                 /\ UNION got = src
            ELSE /\ Len(ret.val) = 1
                 /\ src \subseteq CellsOfName(ret.val[1])

\* C6: a search of a valid source tile that is given target_tiletype alone,
\* as any of T1, T3, T6, T18, does not fail and finds tiles of that class.
C6_TiletypeAlone ==
    (/\ call.op = "find_overlapping_tilenames"
     /\ ~call.target_sampling.some
     /\ call.target_tiletype.some
     /\ call.target_tiletype.v \in static_tilecodes
     /\ decode_tilename(core, call.tilename).exc = "none")
        => /\ ret.exc = "none"
           /\ \A k \in 1..Len(ret.val) : ClassOfName(ret.val[k]) = call.target_tiletype.v

\* C7: the names a search returns are long-form names (the tag, the code of
\* the target sampling, '_' and the short form, of the class of that
\* sampling) whenever target_sampling is given, with or without
\* target_tiletype, and short-form names whenever only target_tiletype is
\* given.
C7_OutputForm ==
    Found =>
        \A k \in 1..Len(ret.val) :
            IF call.target_sampling.some
            THEN /\ LongFormat(ret.val[k])
                 /\ SubSeq(ret.val[k], 1, 2) = core.tag
                 /\ Ok(SubSeq(ret.val[k], 3, 6)) = encode_sampling(call.target_sampling.v)
                 /\ Ok(ClassOfName(ret.val[k])) = get_tiletype(call.target_sampling.v)
            ELSE /\ ShortFormat(ret.val[k])
                 /\ ClassOfName(ret.val[k]) = call.target_tiletype.v

\* a search given a target_sampling and a target_tiletype of another class
\* has returned long names
C7_Witness ==
    /\ Found
    /\ call.target_sampling.some /\ call.target_tiletype.some
    /\ get_tiletype(call.target_sampling.v).val # call.target_tiletype.v
    /\ Len(ret.val) > 1
    /\ LongFormat(ret.val[1])

\* C8: a search given neither target_sampling nor target_tiletype fails with
\* a ValueError and with no other kind of error.
C8_NeitherGiven ==
    (/\ call.op = "find_overlapping_tilenames"
     /\ ~call.target_sampling.some
     /\ ~call.target_tiletype.some)
        => ret.exc = "ValueError"

\* C9: decode_tilename rejects with a ValueError every string that is of
\* neither the short nor the long format.
C9_RejectsMalformed ==
    (/\ call.op = "decode_tilename"
     /\ ~ShortFormat(call.tilename)
     /\ ~LongFormat(call.tilename))
        => ret.exc = "ValueError"

\* C10: decode_tilename fails with the ValueError of the message
\* '"tilename" is not properly defined!' (msg1) on a name of either format
\* whose size class is not the grid's, and with a ValueError on a long name
\* whose tag is not the grid's or whose sampling code decodes to a sampling
\* that is not the grid's within the tolerance of the float comparison.
C10_MismatchRejected ==
    call.op = "decode_tilename" =>
        /\ (/\ \/ ShortFormat(call.tilename)
               \/ LongFormat(call.tilename) /\ SamplingCode(SubSeq(call.tilename, 3, 6))
            /\ ClassOfName(call.tilename) # core.tiletype)
               => ret = Raise("ValueError", "msg1")
        /\ (/\ LongFormat(call.tilename)
            /\ SamplingCode(SubSeq(call.tilename, 3, 6))
            /\ \/ SubSeq(call.tilename, 1, 2) # core.tag
               \/ ~isclose(decode_sampling(SubSeq(call.tilename, 3, 6)).val, core.sampling))
               => ret.exc = "ValueError"

\* a long name of the grid's tag and size class, on an aligned corner, is
\* rejected for its sampling alone
C10_Witness ==
    /\ call.op = "decode_tilename"
    /\ LongFormat(call.tilename)
    /\ SamplingCode(SubSeq(call.tilename, 3, 6))
    /\ SubSeq(call.tilename, 1, 2) = core.tag
    /\ ClassOfName(call.tilename) = core.tiletype
    /\ ~isclose(decode_sampling(SubSeq(call.tilename, 3, 6)).val, core.sampling)
    /\ ret = Raise("ValueError", "msg1")

(***************************************************************************)
(* C11 .. C20                                                              *)
(***************************************************************************)
\* the longitude and latitude fields of a name of either format, as numbers
FieldsOfName(n) == <<CornerOfName(n)[1] + 180, CornerOfName(n)[2] + 90>>

\* C11: every name that decode_tilename accepts has a lower-left longitude
\* and latitude that are multiples of the tile size, and so are the fields
\* of the name themselves (180 and 90 are multiples of 1, 3, 6 and 18); a
\* name of either format with a misaligned field fails with a ValueError.
C11_AlignedCorners ==
    call.op = "decode_tilename" =>
        /\ ret.exc = "none"
              => /\ ret.val[4] % core.tile_xsize_m = 0
                 /\ ret.val[5] % core.tile_ysize_m = 0
                 /\ (ret.val[4] + 180) % core.tile_xsize_m = 0
                 /\ (ret.val[5] + 90) % core.tile_ysize_m = 0
        /\ (ShortFormat(call.tilename) \/ LongFormat(call.tilename))
              => /\ ret.exc = "none"
                      => /\ FieldsOfName(call.tilename)[1] % core.tile_xsize_m = 0
                         /\ FieldsOfName(call.tilename)[2] % core.tile_ysize_m = 0
                         /\ ret.val[4] = FieldsOfName(call.tilename)[1] - 180
                         /\ ret.val[5] = FieldsOfName(call.tilename)[2] - 90
                 /\ (\/ FieldsOfName(call.tilename)[1] % core.tile_xsize_m # 0
                     \/ FieldsOfName(call.tilename)[2] % core.tile_ysize_m # 0)
                      => ret.exc = "ValueError"

\* a name of the grid's own tag, sampling and size class is rejected, with
\* the message of the multiples, for a misaligned field alone
C11_Witness ==
    /\ call.op = "decode_tilename"
    /\ LongFormat(call.tilename)
    /\ SubSeq(call.tilename, 1, 6) = core.tag \o OwnCode(core)
    /\ ClassOfName(call.tilename) = core.tiletype
    /\ FieldsOfName(call.tilename)[1] % core.tile_xsize_m # 0
    /\ ret = Raise("ValueError", "msg2")

\* a name that the tiling system accepts
ValidName(n) == decode_tilename(core, n).exc = "none"

\* the land tiles of the size class of the grid
LandOfGrid == static_data.GL.coverland[core.tiletype]

\* C12: for every valid long-form name, of a tiling system of any of the four
\* size classes, tilename2short returns the name without its first seven
\* characters (the tag, the sampling code and '_').
C12_ShortOfLong ==
    (/\ call.op = "tilename2short"
     /\ LongFormat(call.longform)
     /\ ValidName(call.longform))
        => ret = Ok(SubSeq(call.longform, 8, Len(call.longform)))

\* C13: for every valid short-form name of the grid's size class,
\* check_tile_covers_land returns a boolean: whether the name is in the land
\* tiles of that size class in the static data.
C13_CoversLand ==
    (/\ call.op = "check_tile_covers_land"
     /\ ShortFormat(call.tilename)
     /\ ValidName(call.tilename))
        => /\ ret.exc = "none"
           /\ ret.val = (call.tilename \in LandOfGrid)

\* the lower-left corner of the one tile of the grid that holds the point:
\* the aligned corner with ll <= point < ll + tile size, on each axis
CornerAt(x, origin, extent, size) ==
    CHOOSE ll \in {i * size - origin : i \in 0..(extent \div size - 1)} :
        FLe(FromInt(ll), x) /\ FLt(x, FromInt(ll + size))

ContainingCorner(lon, lat) ==
    <<CornerAt(lon, 180, 360, core.tile_xsize_m), CornerAt(lat, 90, 180, core.tile_ysize_m)>>

\* the point lies strictly inside the globe
StrictlyInside(lon, lat) ==
    /\ FLt(FromInt(-180), lon) /\ FLt(lon, FromInt(180))
    /\ FLt(FromInt(-90), lat) /\ FLt(lat, FromInt(90))

\* the canonical long-form name of the tile of this corner
CanonicalName(ll) ==
    LongName(core.tag, OwnCode(core), ll[1] + 180, ll[2] + 90, core.tile_xsize_m)

\* C14: on a grid of every supported sampling and for every point strictly
\* inside the globe, create_tile(lon, lat) does not fail and returns a tile
\* whose name is the canonical long-form name of the tile that holds the
\* point and whose covers_land says whether the short name of the tile is
\* in the land tiles of the grid's size class.
C14_CreateAtPoint ==
    (/\ call.op = "create_tile"
     /\ ~call.name.some /\ call.lon.some /\ call.lat.some
     /\ StrictlyInside(call.lon.v, call.lat.v))
        => /\ ret.exc = "none"
           /\ ret.val.name = CanonicalName(ContainingCorner(call.lon.v, call.lat.v))
           /\ ret.val.covers_land = (ShortPart(ret.val.name) \in LandOfGrid)

\* the name alone, or lon and lat without the name
ByName(c) == c.name.some /\ ~c.lon.some /\ ~c.lat.some

ByPoint(c) == ~c.name.some /\ c.lon.some /\ c.lat.some

\* C15: create_tile succeeds only when exactly one of its two inputs is
\* given, the name alone or lon and lat without the name; given nothing,
\* the name with lon or lat, or one of lon and lat alone, it fails with the
\* error of invalid arguments (AttributeError) and makes no tile.
C15_ExactlyOne ==
    call.op = "create_tile" =>
        /\ ret.exc = "none" => (ByName(call) \/ ByPoint(call))
        /\ ~(ByName(call) \/ ByPoint(call))
              => (ret.exc = "AttributeError" /\ ret.val = <<>>)

\* create_tile given a name together with lon and lat has failed with the
\* error of invalid arguments
C15_Witness ==
    /\ call.op = "create_tile"
    /\ call.name.some /\ call.lon.some /\ call.lat.some
    /\ ValidName(call.name.v)
    /\ ret.exc = "AttributeError"

\* the point lies in the globe, its west and south border included
InGlobe(lon, lat) ==
    /\ FLe(FromInt(-180), lon) /\ FLt(lon, FromInt(180))
    /\ FLe(FromInt(-90), lat) /\ FLt(lat, FromInt(90))

\* C20: for every point with -180 <= lon < 180 and -90 <= lat < 90 and every
\* size class, round_lonlat2lowerleft returns the corner
\* (floor((lon+180)/t)*t - 180, floor((lat+90)/t)*t - 90): both are multiples
\* of the tile size t, ll_lon <= lon < ll_lon + t and ll_lat <= lat < ll_lat + t.
C20_LowerLeft ==
    (/\ call.op = "round_lonlat2lowerleft"
     /\ InGlobe(call.lon, call.lat))
        => /\ ret.val[1] % core.tile_xsize_m = 0
           /\ ret.val[2] % core.tile_ysize_m = 0
           /\ FLe(FromInt(ret.val[1]), call.lon)
           /\ FLt(call.lon, FromInt(ret.val[1] + core.tile_xsize_m))
           /\ FLe(FromInt(ret.val[2]), call.lat)
           /\ FLt(call.lat, FromInt(ret.val[2] + core.tile_ysize_m))

\* a search of a region that returned its list of names
Searched == call.op = "search_tiles_in_geometry" /\ ret.exc = "none"

\* the region has a positive area and lies inside the extent of the subgrid
InsideExtent(g) ==
    /\ FLt(g.x0, g.x1) /\ FLt(g.y0, g.y1)
    /\ FLe(static_data.GL.zone_extent.x0, g.x0) /\ FLe(g.x1, static_data.GL.zone_extent.x1)
    /\ FLe(static_data.GL.zone_extent.y0, g.y0) /\ FLe(g.y1, static_data.GL.zone_extent.y1)

\* the aligned corners, on one axis, of the tiles that overlap the open
\* interval from lo to hi
OverlapAxis(lo, hi, origin, extent, size) ==
    {ll \in {i * size - origin : i \in 0..(extent \div size - 1)} :
        FLt(FromInt(ll), hi) /\ FLt(lo, FromInt(ll + size))}

\* the corners of the tiles of the grid that overlap the region with a
\* positive area
OverlappingCorners(g) ==
    OverlapAxis(g.x0, g.x1, 180, 360, core.tile_xsize_m)
    \X OverlapAxis(g.y0, g.y1, 90, 180, core.tile_ysize_m)

\* C16: for every region of interest inside the extent of the subgrid, also
\* one whose minimum corner is negative and fractional, a search with
\* coverland=False returns every tile of the grid that overlaps the region
\* with a positive area: no partly covered tile on the border is missed.
C16_NoTileMissed ==
    (/\ call.op = "search_tiles_in_geometry"
     /\ ~call.coverland
     /\ InsideExtent(call.geom))
        => /\ ret.exc = "none"
           /\ OverlappingCorners(call.geom)
                 \subseteq {CornerOfName(ret.val[k]) : k \in 1..Len(ret.val)}

\* the tiles that the same search returns with coverland=False
AllTiles(c) == search_tiles_in_geometry(core, static_data, c.geom, FALSE)

\* C17: on a grid of every supported sampling and for every region, a
\* search with coverland=True does not fail and returns exactly those tiles
\* of the result with coverland=False whose short names are in the land
\* tiles of the grid's size class.
C17_LandFilter ==
    (call.op = "search_tiles_in_geometry" /\ call.coverland)
        => /\ ret.exc = "none"
           /\ {ret.val[k] : k \in 1..Len(ret.val)}
                 = {n \in {AllTiles(call).val[k] : k \in 1..Len(AllTiles(call).val)} :
                       ShortPart(n) \in LandOfGrid}

\* C18 as the specification states it: the names that a search returns are
\* short-form names.
C18_ShortNames ==
    Searched => \A k \in 1..Len(ret.val) : ShortFormat(ret.val[k])

\* C18: every name in the list that a search returns is a long-form name:
\* the tag of the subgrid, the code of the grid's sampling, '_' and the
\* short form of a tile of the grid's size class.
C18_LongNames ==
    Searched =>
        \A k \in 1..Len(ret.val) :
            /\ LongFormat(ret.val[k])
            /\ SubSeq(ret.val[k], 1, 6) = core.tag \o OwnCode(core)
            /\ ClassOfName(ret.val[k]) = core.tiletype

\* a search for land tiles has returned long names, one name or more
C18_Witness ==
    /\ Searched
    /\ call.coverland
    /\ Len(ret.val) >= 1
    /\ LongFormat(ret.val[1])

\* the sampling of the grid as the decimal n * 10^k that it is written as
SamplingDecimal(sampling) ==
    CHOOSE d \in {<<1, -4>>, <<16, -5>>, <<2, -4>>, <<3, -4>>, <<4, -4>>, <<5, -4>>,
                  <<6, -4>>, <<8, -4>>, <<1, -3>>, <<16, -4>>, <<2, -3>>, <<3, -3>>,
                  <<4, -3>>, <<5, -3>>, <<6, -3>>, <<8, -3>>, <<1, -2>>} :
        FEq(Dec(d[1], d[2]), sampling)

RECURSIVE Pow10(_)
Pow10(k) == IF k = 0 THEN 1 ELSE 10 * Pow10(k - 1)

\* the float nearest to n * 10^-5
Decimal5(n) == IF n < 0 THEN FNeg(Dec(0 - n, -5)) ELSE Dec(n, -5)

\* the float nearest to the exact value of start + steps * sampling, for the
\* sampling d[1] * 10^d[2]
AffineValue(start, steps, d) ==
    Decimal5(start * 100000 + steps * d[1] * Pow10(d[2] + 5))

\* numpy.testing.assert_allclose(actual, desired): rtol = 1e-07, atol = 0
allclose(actual, desired) ==
    FLe(FAbs(FSub(actual, desired)), FMul(Dec(1, -7), FAbs(desired)))

\* the pixel lies in the tile
InTile(c) ==
    /\ 0 <= c.i /\ c.i < PixelCount(c.tile.core)
    /\ 0 <= c.j /\ c.j < PixelCount(c.tile.core)

\* C19: for a tile with lower-left corner (ll_lon, ll_lat), tile size t and
\* sampling r, ij2xy(col, row) is (ll_lon + col*r, ll_lat + t - row*r), up
\* to the tolerance of the tests, and xy2ij is its inverse: for every pixel
\* (col, row) with 0 <= col, row < t/r, xy2ij(ij2xy(col, row)) = (col, row).
C19_AffineInverse ==
    (call.op = "ij2xy" /\ InTile(call))
        => /\ allclose(ret.val[1],
                       AffineValue(call.tile.ll_lon, call.i,
                                   SamplingDecimal(call.tile.core.sampling)))
           /\ allclose(ret.val[2],
                       AffineValue(call.tile.ll_lat + call.tile.core.tile_ysize_m,
                                   0 - call.j,
                                   SamplingDecimal(call.tile.core.sampling)))
           /\ xy2ij(call.tile, ret.val[1], ret.val[2]) = <<call.i, call.j>>

\* ij2xy has given the coordinates of the pixel (333, 444) of the tile of
\* the point (-71.3456, -1.5432), whose corner is (-72, -2)
C19_Witness ==
    /\ call.op = "ij2xy"
    /\ call.tile.ll_lon = -72 /\ call.tile.ll_lat = -2
    /\ call.i = 333 /\ call.j = 444
    /\ InTile(call)
    /\ ret.exc = "none"

(***************************************************************************)
(* C21 .. C29: the construction of grids, the size classes, repeated       *)
(* searches, and the tiles at and beyond the borders of the globe.         *)
(***************************************************************************)
\* the sampling in units of 0.00001, for a sampling of FineSamplings
UnitsOf(sampling) == CHOOSE n \in SamplingUnits : Dec(n, -5) = sampling

\* the tile of this size is a whole number of pixels of the sampling wide
EvenlyDivided(size, sampling) == (size * 100000) % UnitsOf(sampling) = 0

\* C21: constructing a LatLonGrid with one of the 17 supported samplings
\* succeeds and gives a grid of that sampling; with any other sampling it
\* fails with ValueError
C21_Construction ==
    call.op = "LatLonGrid" =>
        IF call.sampling \in static_sampling
        THEN ret.exc = "none" /\ ret.val.sampling = call.sampling /\ core = ret.val
        ELSE ret.exc = "ValueError"

\* 0.00024 is refused, although get_tiletype has a size class for it
C21_Witness ==
    /\ call.op = "LatLonGrid"
    /\ call.sampling = Dec(24, -5)
    /\ get_tiletype(call.sampling).exc = "none"
    /\ ret.exc = "ValueError"

\* C22: get_tiletype maps every supported sampling to one of the four size
\* classes, it raises for none of them, and the tile size of the class (as
\* get_tilesize gives it) is a whole multiple of the sampling
C22_SupportedClass ==
    /\ call.op = "get_tiletype" /\ call.sampling \in static_sampling =>
           /\ ret.exc = "none"
           /\ ret.val \in static_tilecodes
           /\ EvenlyDivided(TileSizeOf(ret.val), call.sampling)
    /\ call.op = "get_tilesize" /\ call.sampling \in static_sampling =>
           /\ ret.exc = "none"
           /\ ret.val[1] = ret.val[2]
           /\ ret.val[1] = TileSizeOf(get_tiletype(call.sampling).val)
           /\ EvenlyDivided(ret.val[1], call.sampling)

\* the sampling 0.00016 has the size class 'T1': 6250 pixels to a tile
C22_Witness ==
    /\ call.op = "get_tiletype"
    /\ call.sampling = Dec(16, -5)
    /\ ret.exc = "none" /\ ret.val = T1

\* C24: for a sampling of up to five decimal places get_tiletype returns a
\* size class only if the sampling evenly divides the tile size of the
\* class, and fails with ValueError otherwise
C24_EvenDivision ==
    call.op = "get_tiletype" /\ call.sampling \in FineSamplings =>
        IF ret.exc = "none"
        THEN EvenlyDivided(TileSizeOf(ret.val), call.sampling)
        ELSE ret.exc = "ValueError"

\* the names a search returned, as a set
found_names(r) == {r.val[k] : k \in 1..Len(r.val)}

C25_OutOfRangeRejected ==
    (/\ call.op = "encode_tilename"
     /\ (call.ll_lon \notin -180..179 \/ call.ll_lat \notin -90..89))
        => ret.exc = "ValueError"

\* C29: every name that decode_tilename accepts denotes a tile inside the
\* globe: -180 <= ll_lon <= 180 - tilesize and -90 <= ll_lat <= 90 - tilesize
C29_InsideGlobe ==
    (call.op = "decode_tilename" /\ ret.exc = "none")
        => /\ ret.val[4] \in -180..(180 - core.tile_xsize_m)
           /\ ret.val[5] \in -90..(90 - core.tile_ysize_m)

\* C28: for every point of the closed globe, -180 <= lon <= 180 and
\* -90 <= lat <= 90, point2tilename names a tile inside the globe: the
\* fields of the name are within 0 .. 360 - tilesize and 0 .. 180 - tilesize
C28_PointInsideGlobe ==
    (/\ call.op = "point2tilename"
     /\ FLe(FromInt(-180), call.lon) /\ FLe(call.lon, FromInt(180))
     /\ FLe(FromInt(-90), call.lat) /\ FLe(call.lat, FromInt(90)))
        => /\ ret.exc = "none"
           /\ FieldsOfName(ret.val)[1] \in 0..(360 - core.tile_xsize_m)
           /\ FieldsOfName(ret.val)[2] \in 0..(180 - core.tile_ysize_m)

\* the grid of the tiles a search has found
TargetGridOf(c) ==
    LatLonGrid(target_sampling_of(c.target_sampling, c.target_tiletype).val.v).val

\* the search from the found tile b back to the source, by the source's
\* sampling and by its size class
back_by_sampling(b) ==
    find_overlapping_tilenames(TargetGridOf(call), b, Some(core.sampling), None)

back_by_tiletype(b) ==
    find_overlapping_tilenames(TargetGridOf(call), b, None, Some(core.tiletype))

\* the search has returned exactly the tile of the name a
is_only(found, a) ==
    /\ found.exc = "none"
    /\ Len(found.val) = 1
    /\ ShortPart(found.val[1]) = ShortPart(a)

\* C26: for a tile A of a coarser grid and every tile B that the search of
\* A for a finer target returns, the search of B on the finer grid for A's
\* sampling, and that for A's size class, returns exactly the one tile A
C26_OwnInverse ==
    (Found /\ TileSizeOf(TargetClass(call)) < core.tile_xsize_m)
        => \A k \in 1..Len(ret.val) :
               /\ is_only(back_by_sampling(ret.val[k]), call.tilename)
               /\ is_only(back_by_tiletype(ret.val[k]), call.tilename)

\* C27: distinct supported samplings have distinct sampling codes, so the
\* long names of grids of two supported samplings differ for the same tile
C27_DistinctCodes ==
    (call.op = "encode_sampling" /\ call.sampling \in static_sampling)
        => /\ ret.exc = "none"
           /\ \A s \in static_sampling \ {call.sampling} :
                  /\ encode_sampling(s).exc = "none"
                  /\ encode_sampling(s).val # ret.val
                  /\ encode_tilename(core, 0, 0, s, T1, FALSE)
                         # encode_tilename(core, 0, 0, call.sampling, T1, FALSE)

====
